---------------------------- MODULE Spec2Model ----------------------------
(***************************************************************************)
(* Model of src/preprocess.py: loading of transactional datasets (CSV and  *)
(* JSON), item normalisation and the data summary.                         *)
(*                                                                         *)
(* A Python str is a sequence of one-character strings, so that strip,     *)
(* lower, replace, float() and the number formatting are computed and not  *)
(* assumed.  A Dataset is a sequence of transactions, a transaction a      *)
(* sequence of items.                                                      *)
(***************************************************************************)
EXTENDS Integers, Sequences, FiniteSets, TLC

VARIABLES
    op,            \* the function of preprocess.py called last ("none" before any call)
    path,          \* data_path handed to preprocess_data
    file,          \* what the file system holds at path
    opens,         \* number of open() calls made so far
    ret,           \* outcome of the last call: a value or a raised exception
    transactions,  \* the Dataset held by the caller (main's `transactions`)
    arg,           \* the argument of the last call
    chained,       \* TRUE when arg was itself returned by normalize_items
    extractors,    \* the extractors that ran during the last load, in call order
    resolution     \* how _load_transactional_format resolved its two columns

vars == <<op, path, file, opens, ret, transactions, arg, chained, extractors, resolution>>

-----------------------------------------------------------------------------
(* Python str operations, character by character.                          *)

UpperLetters == <<"A","B","C","D","E","F","G","H","I","J","K","L","M",
                  "N","O","P","Q","R","S","T","U","V","W","X","Y","Z">>
LowerLetters == <<"a","b","c","d","e","f","g","h","i","j","k","l","m",
                  "n","o","p","q","r","s","t","u","v","w","x","y","z">>
DigitChars == <<"0","1","2","3","4","5","6","7","8","9">>

Range(s) == {s[i] : i \in DOMAIN s}

DigitSet == Range(DigitChars)

Whitespace == {" ", "\t", "\n", "\r"}

SetMin(S) == CHOOSE x \in S : \A y \in S : x <= y

SetMax(S) == CHOOSE x \in S : \A y \in S : x >= y

\* The lower-case letter of each upper-case letter.
LowerOf ==
    [c \in Range(UpperLetters) |->
        LowerLetters[CHOOSE i \in DOMAIN UpperLetters : UpperLetters[i] = c]]

LowerChar(c) == IF c \in DOMAIN LowerOf THEN LowerOf[c] ELSE c

\* str.lower()
str_lower(s) == [i \in 1..Len(s) |-> LowerChar(s[i])]

\* str.strip(): leading and trailing whitespace removed.
str_strip(s) ==
    LET keep == {i \in 1..Len(s) : s[i] \notin Whitespace}
    IN  IF keep = {} THEN <<>> ELSE SubSeq(s, SetMin(keep), SetMax(keep))

\* str.replace(old, new) for one-character old and new.
str_replace(s, old, new) == [i \in 1..Len(s) |-> IF s[i] = old THEN new ELSE s[i]]

\* str.endswith(suffix)
str_endswith(s, suffix) ==
    /\ Len(s) >= Len(suffix)
    /\ SubSeq(s, Len(s) - Len(suffix) + 1, Len(s)) = suffix

DigitValues == [c \in Range(DigitChars) |-> (CHOOSE i \in DOMAIN DigitChars : DigitChars[i] = c) - 1]

DigitVal(c) == DigitValues[c]

RECURSIVE Pow10(_)
Pow10(k) == IF k = 0 THEN 1 ELSE 10 * Pow10(k - 1)

\* str(n) for a natural number n.
RECURSIVE NatToStr(_)
NatToStr(n) ==
    IF n < 10 THEN <<DigitChars[n + 1]>>
    ELSE NatToStr(n \div 10) \o <<DigitChars[(n % 10) + 1]>>

-----------------------------------------------------------------------------
(* float(): the grammar of Python's float constructor on ASCII input.      *)
(* A finite value is neg * mant / 10^scale, kept exact.                    *)

IsDigit(c) == c \in DigitSet

\* digit ("_"? digit)*: underscores only between two digits.
IsDigitPart(s) ==
    /\ Len(s) > 0
    /\ IsDigit(s[1])
    /\ IsDigit(s[Len(s)])
    /\ \A i \in 1..Len(s) : IsDigit(s[i]) \/ s[i] = "_"
    /\ \A i \in 1..(Len(s) - 1) : ~(s[i] = "_" /\ s[i + 1] = "_")

DigitsOnly(s) == SelectSeq(s, IsDigit)

RECURSIVE DigitsValue(_)
DigitsValue(s) ==
    IF Len(s) = 0 THEN 0
    ELSE 10 * DigitsValue(SubSeq(s, 1, Len(s) - 1)) + DigitVal(s[Len(s)])

NotANumber == [kind |-> "err", neg |-> FALSE, mant |-> 0, scale |-> 0]

ParseExponent(s) ==
    LET signed == Len(s) > 0 /\ s[1] \in {"+", "-"}
        body   == IF signed THEN Tail(s) ELSE s
    IN  IF IsDigitPart(body)
        THEN [ok |-> TRUE,
              val |-> IF signed /\ s[1] = "-"
                      THEN 0 - DigitsValue(DigitsOnly(body))
                      ELSE DigitsValue(DigitsOnly(body))]
        ELSE [ok |-> FALSE, val |-> 0]

ParseDecimal(u, neg) ==
    LET epos    == {i \in 1..Len(u) : u[i] \in {"e", "E"}}
        hasExp  == epos # {}
        p       == IF hasExp THEN SetMin(epos) ELSE Len(u) + 1
        mantStr == SubSeq(u, 1, p - 1)
        ex      == IF hasExp THEN ParseExponent(SubSeq(u, p + 1, Len(u)))
                   ELSE [ok |-> TRUE, val |-> 0]
        dpos    == {i \in 1..Len(mantStr) : mantStr[i] = "."}
        q       == IF dpos = {} THEN Len(mantStr) + 1 ELSE SetMin(dpos)
        intStr  == SubSeq(mantStr, 1, q - 1)
        fracStr == SubSeq(mantStr, q + 1, Len(mantStr))
        wellFormed ==
            /\ ex.ok
            /\ intStr = <<>> \/ IsDigitPart(intStr)
            /\ fracStr = <<>> \/ IsDigitPart(fracStr)
            /\ ~(intStr = <<>> /\ fracStr = <<>>)
        mant0   == DigitsValue(DigitsOnly(intStr) \o DigitsOnly(fracStr))
        scale0  == Len(DigitsOnly(fracStr))
    IN  IF ~wellFormed THEN NotANumber
        ELSE IF ex.val >= scale0
        THEN [kind |-> "fin", neg |-> neg,
              mant |-> mant0 * Pow10(ex.val - scale0), scale |-> 0]
        ELSE [kind |-> "fin", neg |-> neg, mant |-> mant0, scale |-> scale0 - ex.val]

\* float(s); kind "err" stands for the ValueError float() raises.
float_parse(s) ==
    LET t      == str_strip(s)
        signed == Len(t) > 0 /\ t[1] \in {"+", "-"}
        neg    == signed /\ t[1] = "-"
        u      == IF signed THEN Tail(t) ELSE t
        lu     == str_lower(u)
    IN  IF lu = <<"n","a","n">>
        THEN [kind |-> "nan", neg |-> neg, mant |-> 0, scale |-> 0]
        ELSE IF lu \in {<<"i","n","f">>, <<"i","n","f","i","n","i","t","y">>}
        THEN [kind |-> "inf", neg |-> neg, mant |-> 0, scale |-> 0]
        ELSE ParseDecimal(u, neg)

\* float.is_integer(): False for nan and the infinities.
is_integer(num) == num.kind = "fin" /\ num.mant % Pow10(num.scale) = 0

\* str(int(num_value)) for an integral float; int(-0.0) is 0.
str_int(num) ==
    LET n == num.mant \div Pow10(num.scale)
    IN  IF num.neg /\ n # 0 THEN <<"-">> \o NatToStr(n) ELSE NatToStr(n)

\* a / b rounded to the nearest integer, ties to even.
RoundHalfEven(a, b) ==
    LET q == a \div b
        r == a % b
    IN  IF 2 * r < b THEN q
        ELSE IF 2 * r > b THEN q + 1
        ELSE IF q % 2 = 0 THEN q ELSE q + 1

\* f"{num_value:.2f}": the sign is kept even when the digits round to zero.
\* Python rounds the double nearest to the decimal; the decimal itself is
\* rounded here.  The two agree unless the decimal is a tie at the third place
\* that no double holds (0.005, 1.015); no item of the model is such a value.
format_2f(num) ==
    IF num.kind = "nan" THEN <<"n","a","n">>
    ELSE IF num.kind = "inf"
    THEN (IF num.neg THEN <<"-">> ELSE <<>>) \o <<"i","n","f">>
    ELSE LET h == RoundHalfEven(num.mant * 100, Pow10(num.scale))
         IN  (IF num.neg THEN <<"-">> ELSE <<>>)
             \o NatToStr(h \div 100)
             \o <<".", DigitChars[((h % 100) \div 10) + 1], DigitChars[(h % 10) + 1]>>

-----------------------------------------------------------------------------
(* normalize_items                                                         *)

Sentinels == {<<"n","a","n">>, <<"n","u","l","l">>, <<"n","o","n","e">>, <<>>}

\* The body of the inner loop up to the filter: the cleaned item.
clean_item(item) ==
    LET stripped == str_strip(item)
        num      == float_parse(stripped)
    IN  IF num.kind = "err"
        THEN str_replace(str_lower(stripped), " ", "_")
        ELSE IF is_integer(num) THEN str_int(num) ELSE format_2f(num)

\* The filter with 'none' forgotten.
item_kept_without_none(c) ==
    c # <<>> /\ c \notin {<<"n","a","n">>, <<"n","u","l","l">>, <<>>}

\* `if clean_item and clean_item not in ['nan', 'null', 'none', '']`
item_kept(c) == c # <<>> /\ c \notin Sentinels

RECURSIVE normalize_transaction(_)
normalize_transaction(t) ==
    IF t = <<>> THEN <<>>
    ELSE LET c == clean_item(Head(t))
         IN  (IF item_kept(c) THEN <<c>> ELSE <<>>) \o normalize_transaction(Tail(t))

RECURSIVE normalize_items(_)
normalize_items(ts) ==
    IF ts = <<>> THEN <<>>
    ELSE LET n == normalize_transaction(Head(ts))
         IN  (IF n # <<>> THEN <<n>> ELSE <<>>) \o normalize_items(Tail(ts))

-----------------------------------------------------------------------------
(* Values shared by the specifications.                                    *)

NoCall == [kind |-> "none"]

NoFile == [kind |-> "absent"]

NoResolution == [trans |-> "unused", item |-> "unused"]

SeqsUpTo(S, n) == UNION {[1..k -> S] : k \in 0..n}

-----------------------------------------------------------------------------
(* normalize_items applied, and applied again, to a Dataset.               *)

\* Longest item of the exhaustive family of raw items.
MaxLen == 4

\* Longest Dataset built from TransPool.
MaxTrans == 2

Chars == {" ", "0", "9", ".", "_", "n", "a", "N"}

\* Every raw item over Chars, each alone in a one-transaction Dataset.
SingleItemDatasets == {<<<<s>>>> : s \in SeqsUpTo(Chars, MaxLen)}

Milk_ == <<"M","i","l","k"," ">>
None_ == <<"N","o","n","e">>
NULL_ == <<"N","U","L","L">>
NaN_ == <<"N","a","N">>
Blank_ == <<" ","\t">>
Three00 == <<"3",".","0","0">>
Pi_ == <<"3",".","1","4","1","5","9">>
MinusSmall == <<"-",".","0","0","1">>
OneSpaceZero == <<"1"," ","0">>
Exp_ == <<"1","e","1">>
Inf_ == <<"-","I","n","f">>

TransPool ==
    { <<>>,
      <<Milk_, Three00>>,
      <<None_, NULL_>>,
      <<NaN_, Pi_, Blank_>>,
      <<Blank_>>,
      <<MinusSmall>>,
      <<OneSpaceZero, Exp_>>,
      <<Inf_, Milk_>> }

RawDatasets == SingleItemDatasets \cup SeqsUpTo(TransPool, MaxTrans)

InitNormalize ==
    /\ op = "none"
    /\ path = <<>>
    /\ file = NoFile
    /\ opens = 0
    /\ ret = NoCall
    /\ transactions \in RawDatasets
    /\ arg = <<>>
    /\ chained = FALSE
    /\ extractors = <<>>
    /\ resolution = NoResolution

\* transactions = normalize_items(transactions), as main does.
Normalize ==
    /\ op' = "normalize_items"
    /\ arg' = transactions
    /\ chained' = (op = "normalize_items")
    /\ transactions' = normalize_items(transactions)
    /\ ret' = [kind |-> "value"]
    /\ UNCHANGED <<path, file, opens, extractors, resolution>>

NextNormalize == Normalize

SpecNormalize == InitNormalize /\ [][NextNormalize]_vars


\* C1: after normalize_items no transaction of the Dataset is empty, and every
\* item is non-empty and differs, whatever its casing, from nan, null and none.
C1_NoEmptyNoSentinel ==
    op = "normalize_items" =>
        \A i \in DOMAIN transactions :
            /\ transactions[i] # <<>>
            /\ \A j \in DOMAIN transactions[i] :
                /\ transactions[i][j] # <<>>
                /\ str_lower(transactions[i][j]) \notin
                       {<<"n","a","n">>, <<"n","u","l","l">>, <<"n","o","n","e">>}

\* A Dataset with NaN (numeric branch), None and NULL (text branch), a blank
\* item and a transaction left empty has been normalised to [["3.14"]].
C1_Witness ==
    /\ op = "normalize_items"
    /\ arg = <<<<NaN_, Pi_, Blank_>>, <<None_, NULL_>>>>
    /\ transactions = <<<<<<"3",".","1","4">>>>>>

\* C2: normalising the result of normalize_items returns it unchanged.
C2_Idempotent ==
    (op = "normalize_items" /\ chained) => transactions = arg

-----------------------------------------------------------------------------
(* get_data_summary                                                        *)

\* transactions[:3]
SampleSize == 3

NoData == [error |-> "Aucune transaction"]

RECURSIVE Flatten(_)
\* [item for trans in transactions for item in trans]
Flatten(ts) == IF ts = <<>> THEN <<>> ELSE Head(ts) \o Flatten(Tail(ts))

\* round(a / b, 2) in hundredths; a / b raises ZeroDivisionError when b = 0.
Divide(a, b) ==
    IF b = 0 THEN [kind |-> "raise", type |-> "ZeroDivisionError"]
    ELSE [kind |-> "value", value |-> RoundHalfEven(100 * a, b)]

\* Lines 219-230: the statistics of a Dataset.
summary_statistics(ts) ==
    LET total_transactions == Len(ts)
        all_items          == Flatten(ts)
        avg_length         == Divide(Len(all_items), total_transactions)
    IN  IF avg_length.kind = "raise" THEN avg_length
        ELSE [kind |-> "value",
              value |-> [total_transactions |-> total_transactions,
                         unique_items |-> Cardinality(Range(all_items)),
                         avg_transaction_length |-> avg_length.value,
                         sample_transactions |->
                             SubSeq(ts, 1, IF Len(ts) < SampleSize
                                           THEN Len(ts) ELSE SampleSize)]]

\* The summary without its `if not transactions` guard.
get_data_summary_unguarded(ts) == summary_statistics(ts)

get_data_summary(ts) ==
    IF ts = <<>> THEN [kind |-> "value", value |-> NoData]
    ELSE summary_statistics(ts)

\* Longest Dataset handed to get_data_summary.
MaxSummaryTrans == 4

ItemA == <<"a">>
ItemB == <<"b">>

SummaryTransPool == {<<>>, <<ItemA>>, <<ItemB, ItemA>>, <<ItemA, ItemA, ItemB>>}

InitSummary ==
    /\ op = "none"
    /\ path = <<>>
    /\ file = NoFile
    /\ opens = 0
    /\ ret = NoCall
    /\ transactions \in SeqsUpTo(SummaryTransPool, MaxSummaryTrans)
    /\ arg = <<>>
    /\ chained = FALSE
    /\ extractors = <<>>
    /\ resolution = NoResolution

\* summary = get_data_summary(transactions)
Summary ==
    /\ op # "get_data_summary"
    /\ op' = "get_data_summary"
    /\ arg' = transactions
    /\ ret' = get_data_summary(transactions)
    /\ UNCHANGED <<path, file, opens, transactions, chained, extractors, resolution>>

NextSummary == Summary

SpecSummary == InitSummary /\ [][NextSummary]_vars

\* C9: get_data_summary raises nothing; it returns the "no data" sentinel exactly
\* for the Dataset without transactions, and otherwise the number of
\* transactions, the number of distinct items and the first min(3, n)
\* transactions; the Dataset is left as it was.
C9_SummaryTotal ==
    op = "get_data_summary" =>
        LET n     == Len(arg)
            items == UNION {{arg[i][j] : j \in DOMAIN arg[i]} : i \in DOMAIN arg}
        IN  /\ ret.kind = "value"
            /\ transactions = arg
            /\ (n = 0) <=> (ret.value = NoData)
            /\ n > 0 =>
                /\ ret.value.total_transactions = n
                /\ ret.value.unique_items = Cardinality(items)
                /\ Len(ret.value.sample_transactions) = (IF n < 3 THEN n ELSE 3)
                /\ \A i \in DOMAIN ret.value.sample_transactions :
                       ret.value.sample_transactions[i] = arg[i]

\* A Dataset of four transactions, all empty, has been summarised: nothing was
\* divided by zero and three transactions were sampled.
C9_Witness ==
    /\ op = "get_data_summary"
    /\ arg = <<<<>>, <<>>, <<>>, <<>>>>
    /\ ret.kind = "value"
    /\ ret.value # NoData
    /\ ret.value.unique_items = 0
    /\ Len(ret.value.sample_transactions) = 3

-----------------------------------------------------------------------------
(* Sequences as Python lists.                                              *)

Contains(seq, x) == \E i \in DOMAIN seq : seq[i] = x

\* list.index(x), counted from 1.
IndexOf(seq, x) == SetMin({i \in DOMAIN seq : seq[i] = x})

Larger(a, b) == IF a >= b THEN a ELSE b

\* The ValueError raised by code of this module, with the exception being
\* handled when it was raised (its __context__), "none" outside a handler.
Raise(type, msg, context) ==
    [kind |-> "raise", type |-> type, msg |-> msg, context |-> context]

Return(value) == [kind |-> "value", value |-> value]

-----------------------------------------------------------------------------
(* The tabular extractors.                                                 *)

transaction_id_ == <<"t","r","a","n","s","a","c","t","i","o","n","_","i","d">>
trans_id_ == <<"t","r","a","n","s","_","i","d">>
item_ == <<"i","t","e","m">>
product_ == <<"p","r","o","d","u","c","t">>

\* [h.lower().strip() for h in header]
header_lower(header) == [i \in 1..Len(header) |-> str_strip(str_lower(header[i]))]

\* The classifier with the width test tried first.
classify_width_first(header) ==
    IF Len(header) > 2 THEN "matrix"
    ELSE IF /\ Contains(header_lower(header), transaction_id_)
            /\ Contains(header_lower(header), item_)
    THEN "transactional"
    ELSE "simple"

\* The classifier accepting either column name.
classify_either_name(header) ==
    IF \/ Contains(header_lower(header), transaction_id_)
       \/ Contains(header_lower(header), item_)
    THEN "transactional"
    ELSE IF Len(header) > 2 THEN "matrix"
    ELSE "simple"

\* The if / elif / else of load_csv_data.
classify(header) ==
    IF /\ Contains(header_lower(header), transaction_id_)
       /\ Contains(header_lower(header), item_)
    THEN "transactional"
    ELSE IF Len(header) > 2 THEN "matrix"
    ELSE "simple"

\* Column indices count from 1 here and from 0 in the source.
resolve_column(hl, primary, fallback, default) ==
    IF Contains(hl, primary) THEN [branch |-> "primary", idx |-> IndexOf(hl, primary)]
    ELSE IF Contains(hl, fallback)
    THEN [branch |-> "fallback_name", idx |-> IndexOf(hl, fallback)]
    ELSE [branch |-> "fallback_index", idx |-> default]

trans_column(header) == resolve_column(header_lower(header), transaction_id_, trans_id_, 1)

item_column(header) == resolve_column(header_lower(header), item_, product_, 2)

\* The group of a transaction id with the new item put first.
dict_append_front(dict, trans_id, item) ==
    IF \E i \in DOMAIN dict : dict[i].key = trans_id
    THEN [i \in DOMAIN dict |->
             IF dict[i].key = trans_id
             THEN [key |-> trans_id, items |-> <<item>> \o dict[i].items]
             ELSE dict[i]]
    ELSE Append(dict, [key |-> trans_id, items |-> <<item>>])

\* transactions_dict[trans_id].append(item); a dict keeps insertion order.
dict_append(dict, trans_id, item) ==
    IF \E i \in DOMAIN dict : dict[i].key = trans_id
    THEN [i \in DOMAIN dict |->
             IF dict[i].key = trans_id
             THEN [key |-> trans_id, items |-> Append(dict[i].items, item)]
             ELSE dict[i]]
    ELSE Append(dict, [key |-> trans_id, items |-> <<item>>])

RECURSIVE group_rows(_, _, _, _)
\* The `for row in reader` loop of _load_transactional_format.
group_rows(rows, trans_idx, item_idx, dict) ==
    IF rows = <<>> THEN dict
    ELSE LET row == Head(rows)
         IN  IF Len(row) >= Larger(trans_idx, item_idx)
             THEN LET trans_id == str_strip(row[trans_idx])
                      item     == str_strip(row[item_idx])
                  IN  IF /\ item # <<>>
                         /\ str_lower(item) \notin {<<>>, <<"n","a","n">>, <<"n","u","l","l">>}
                      THEN group_rows(Tail(rows), trans_idx, item_idx,
                                      dict_append(dict, trans_id, item))
                      ELSE group_rows(Tail(rows), trans_idx, item_idx, dict)
             ELSE group_rows(Tail(rows), trans_idx, item_idx, dict)

\* reader holds the rows after the header.
load_transactional_format(reader, header) ==
    LET dict == group_rows(reader, trans_column(header).idx, item_column(header).idx, <<>>)
    IN  [i \in 1..Len(dict) |-> dict[i].items]

\* float(value) > 0
positive(num) ==
    \/ num.kind = "fin" /\ ~num.neg /\ num.mant > 0
    \/ num.kind = "inf" /\ ~num.neg

\* The presence test with >= in place of >.
cell_present_or_zero(value) ==
    /\ str_strip(value) # <<>>
    /\ LET num == float_parse(value)
       IN  IF num.kind # "err" THEN positive(num) \/ (num.kind = "fin" /\ num.mant = 0)
           ELSE str_lower(str_strip(value)) \notin
                    {<<"0">>, <<"f","a","l","s","e">>, <<"n","o">>, <<>>, <<"n","a","n">>}

\* `value and value.strip()`, then the try / except of _load_matrix_format.
cell_present(value) ==
    /\ value # <<>>
    /\ str_strip(value) # <<>>
    /\ LET num == float_parse(value)
       IN  IF num.kind # "err" THEN positive(num)
           ELSE str_lower(str_strip(value)) \notin
                    {<<"0">>, <<"f","a","l","s","e">>, <<"n","o">>, <<>>, <<"n","a","n">>}

RECURSIVE matrix_row(_, _, _)
\* The `for i, value in enumerate(row)` loop, from column i on.
matrix_row(row, header, i) ==
    IF i > Len(row) THEN <<>>
    ELSE (IF i <= Len(header) /\ cell_present(row[i])
          THEN <<str_strip(header[i])>> ELSE <<>>)
         \o matrix_row(row, header, i + 1)

RECURSIVE matrix_rows(_, _)
matrix_rows(rows, header) ==
    IF rows = <<>> THEN <<>>
    ELSE LET transaction == matrix_row(Head(rows), header, 1)
         IN  (IF transaction # <<>> THEN <<transaction>> ELSE <<>>)
             \o matrix_rows(Tail(rows), header)

\* reader holds every row of the file: the header is read again.
load_matrix_format(reader) == matrix_rows(Tail(reader), Head(reader))

RECURSIVE join_comma(_)
\* ','.join(row)
join_comma(row) ==
    IF row = <<>> THEN <<>>
    ELSE IF Len(row) = 1 THEN row[1]
    ELSE row[1] \o <<",">> \o join_comma(Tail(row))

RECURSIVE split_comma(_)
\* line.split(',')
split_comma(line) ==
    LET commas == {i \in 1..Len(line) : line[i] = ","}
    IN  IF commas = {} THEN <<line>>
        ELSE <<SubSeq(line, 1, SetMin(commas) - 1)>>
             \o split_comma(SubSeq(line, SetMin(commas) + 1, Len(line)))

NonBlank(s) == str_strip(s) # <<>>

simple_row(row) ==
    LET kept == SelectSeq(split_comma(join_comma(row)), NonBlank)
    IN  [i \in 1..Len(kept) |-> str_strip(kept[i])]

RECURSIVE load_simple_format(_)
\* reader holds every row of the file.
load_simple_format(reader) ==
    IF reader = <<>> THEN <<>>
    ELSE LET items == IF Head(reader) # <<>> THEN simple_row(Head(reader)) ELSE <<>>
         IN  (IF items # <<>> THEN <<items>> ELSE <<>>) \o load_simple_format(Tail(reader))

-----------------------------------------------------------------------------
(* The structured (JSON) extractor.  A parsed JSON value is a record       *)
(* [t, v]: t is "str" (v a string), "int" (v a natural number), "bool",    *)
(* "null", "list" (v a sequence of values) or "dict" (v a sequence of      *)
(* [k, v] pairs in key iteration order, the keys distinct).                *)

JStr(chars) == [t |-> "str", v |-> chars]
JInt(n) == [t |-> "int", v |-> n]
JBool(b) == [t |-> "bool", v |-> b]
JNull == [t |-> "null", v |-> 0]
JList(members) == [t |-> "list", v |-> members]
JDict(pairs) == [t |-> "dict", v |-> pairs]

\* Python truth value: `if x`.
truthy(x) ==
    CASE x.t = "str" -> x.v # <<>>
      [] x.t = "int" -> x.v # 0
      [] x.t = "bool" -> x.v
      [] x.t = "null" -> FALSE
      [] x.t = "list" -> x.v # <<>>
      [] x.t = "dict" -> x.v # <<>>

\* str(x) for a scalar x; the inputs hold no list or dict where str() is applied.
py_str(x) ==
    CASE x.t = "str" -> x.v
      [] x.t = "int" -> NatToStr(x.v)
      [] x.t = "bool" -> IF x.v THEN <<"T","r","u","e">> ELSE <<"F","a","l","s","e">>
      [] x.t = "null" -> <<"N","o","n","e">>

\* [str(x) for x in items if x]
stringify_truthy(members) ==
    LET kept == SelectSeq(members, truthy)
    IN  [i \in 1..Len(kept) |-> py_str(kept[i])]

possible_keys == <<"items", "products", "events", "sequence", "data">>

ReservedKeys == {"id", "transaction_id", "user_id", "weight", "weights"}

HasKey(pairs, key) == \E i \in DOMAIN pairs : pairs[i].k = key

GetKey(pairs, key) == pairs[CHOOSE i \in DOMAIN pairs : pairs[i].k = key].v

RECURSIVE collect_values(_)
\* The fallback loop over item_dict.items().
collect_values(pairs) ==
    IF pairs = <<>> THEN <<>>
    ELSE LET key   == Head(pairs).k
             value == Head(pairs).v
         IN  (IF key \notin ReservedKeys
              THEN (IF value.t = "list" THEN stringify_truthy(value.v)
                    ELSE <<py_str(value)>>)
              ELSE <<>>)
             \o collect_values(Tail(pairs))

\* The heuristic going on to the next key when a list holds nothing to keep.
extract_skipping_empty(pairs) ==
    LET candidates == {i \in DOMAIN possible_keys :
                          /\ HasKey(pairs, possible_keys[i])
                          /\ LET items == GetKey(pairs, possible_keys[i])
                             IN  items.t = "list" => stringify_truthy(items.v) # <<>>}
    IN  IF candidates # {}
        THEN LET items == GetKey(pairs, possible_keys[SetMin(candidates)])
             IN  IF items.t = "list" THEN stringify_truthy(items.v)
                 ELSE <<py_str(items)>>
        ELSE collect_values(pairs)

extract_transaction_from_dict(pairs) ==
    LET present == {i \in DOMAIN possible_keys : HasKey(pairs, possible_keys[i])}
    IN  IF present # {}
        THEN LET items == GetKey(pairs, possible_keys[SetMin(present)])
             IN  IF items.t = "list" THEN stringify_truthy(items.v)
                 ELSE <<py_str(items)>>
        ELSE collect_values(pairs)

\* One element of a top-level list, or one value of a top-level object:
\* the transactions it appends.
json_member(item) ==
    IF item.t = "list" THEN <<stringify_truthy(item.v)>>
    ELSE IF item.t = "dict"
    THEN LET trans == extract_transaction_from_dict(item.v)
         IN  IF trans # <<>> THEN <<trans>> ELSE <<>>
    ELSE <<<<py_str(item)>>>>

RECURSIVE json_members(_)
json_members(items) ==
    IF items = <<>> THEN <<>>
    ELSE json_member(Head(items)) \o json_members(Tail(items))

NonEmpty(t) == t # <<>>

\* The body of load_json_data's try block once json.load has returned data.
json_transactions(data) ==
    IF data.t = "list"
    THEN Return(SelectSeq(json_members(data.v), NonEmpty))
    ELSE IF data.t = "dict"
    THEN Return(SelectSeq(json_members([i \in 1..Len(data.v) |-> data.v[i].v]), NonEmpty))
    ELSE Raise("ValueError", "Format JSON non reconnu", "none")

-----------------------------------------------------------------------------
(* preprocess_data, load_csv_data, load_json_data.  A file is a record     *)
(* [state, csv, json]: state is "absent", "undecodable" (bytes that are    *)
(* not UTF-8) or "readable"; csv is what csv.reader makes of it, rows or   *)
(* a csv.Error; json is what json.load makes of it.                        *)

csv_suffix == <<".","c","s","v">>
json_suffix == <<".","j","s","o","n">>

\* The messages, their accents dropped; a load error's message goes on with
\* the text of the exception it wraps.
Unsupported == "Format non supporte. Utilisez CSV ou JSON."
CsvLoadError == "Erreur lors du chargement du CSV"
JsonLoadError == "Erreur lors du chargement du JSON"

\* A handler catching ValueError and its subclasses only.
caught_value_errors(type) == type \in {"ValueError", "UnicodeDecodeError", "JSONDecodeError"}

\* `except Exception`: every exception raised here derives from Exception.
caught(type) ==
    type \in {"FileNotFoundError", "UnicodeDecodeError", "csv.Error", "StopIteration",
              "JSONDecodeError", "ValueError"}

\* `except Exception as e: raise ValueError(...)`: e becomes the context.
wrap(out, msg) ==
    IF out.kind = "raise" /\ caught(out.type)
    THEN Raise("ValueError", msg, out.type)
    ELSE out

Loaded(out, ran, res) == [out |-> out, opens |-> 1, extractors |-> ran, resolution |-> res]

\* The try block of load_csv_data.
csv_try(f) ==
    IF f.state = "absent"
    THEN Loaded(Raise("FileNotFoundError", "", "none"), <<>>, NoResolution)
    ELSE IF f.state = "undecodable"
    THEN Loaded(Raise("UnicodeDecodeError", "", "none"), <<>>, NoResolution)
    ELSE IF ~f.csv.ok
    THEN Loaded(Raise("csv.Error", "", "none"), <<>>, NoResolution)
    ELSE IF f.csv.rows = <<>>
    THEN Loaded(Raise("StopIteration", "", "none"), <<>>, NoResolution)
    ELSE LET header == Head(f.csv.rows)
             format == classify(header)
         IN  IF format = "transactional"
             THEN Loaded(Return(load_transactional_format(Tail(f.csv.rows), header)),
                         <<"transactional">>,
                         [trans |-> trans_column(header).branch,
                          item |-> item_column(header).branch])
             ELSE IF format = "matrix"
             THEN Loaded(Return(load_matrix_format(f.csv.rows)), <<"matrix">>, NoResolution)
             ELSE Loaded(Return(load_simple_format(f.csv.rows)), <<"simple">>, NoResolution)

load_csv_data(f) ==
    LET r == csv_try(f)
    IN  [r EXCEPT !.out = wrap(r.out, CsvLoadError)]

\* The try block of load_json_data.
json_try(f) ==
    IF f.state = "absent"
    THEN Loaded(Raise("FileNotFoundError", "", "none"), <<>>, NoResolution)
    ELSE IF f.state = "undecodable"
    THEN Loaded(Raise("UnicodeDecodeError", "", "none"), <<>>, NoResolution)
    ELSE IF ~f.json.ok
    THEN Loaded(Raise("JSONDecodeError", "", "none"), <<>>, NoResolution)
    ELSE Loaded(json_transactions(f.json.value), <<"json">>, NoResolution)

load_json_data(f) ==
    LET r == json_try(f)
    IN  [r EXCEPT !.out = wrap(r.out, JsonLoadError)]

\* The dispatch on the suffix with its case ignored.
preprocess_data_any_case(data_path, f) ==
    IF str_endswith(str_lower(data_path), csv_suffix) THEN load_csv_data(f)
    ELSE IF str_endswith(str_lower(data_path), json_suffix) THEN load_json_data(f)
    ELSE [out |-> Raise("ValueError", Unsupported, "none"),
          opens |-> 0, extractors |-> <<>>, resolution |-> NoResolution]

preprocess_data(data_path, f) ==
    IF str_endswith(data_path, csv_suffix) THEN load_csv_data(f)
    ELSE IF str_endswith(data_path, json_suffix) THEN load_json_data(f)
    ELSE [out |-> Raise("ValueError", Unsupported, "none"),
          opens |-> 0, extractors |-> <<>>, resolution |-> NoResolution]

-----------------------------------------------------------------------------
(* The files and paths preprocess_data is called on.                       *)

\* Most data rows of a CSV file.
MaxRows == 3

HdrLong == <<<<"t","r","a","n","s","a","c","t","i","o","n","_","i","d">>, <<"i","t","e","m">>>>
HdrLongWide == <<<<" ","T","r","a","n","s","a","c","t","i","o","n","_","I","D"," ">>, <<"I","T","E","M"," ">>, <<"w","e","i","g","h","t">>>>
HdrReversed == <<<<"i","t","e","m">>, <<"t","r","a","n","s","a","c","t","i","o","n","_","i","d">>>>
HdrFallback == <<<<"t","r","a","n","s","_","i","d">>, <<"p","r","o","d","u","c","t">>>>
HdrFallbackWide == <<<<"t","r","a","n","s","_","i","d">>, <<"p","r","o","d","u","c","t">>, <<"w","e","i","g","h","t">>>>
HdrOnePrimary == <<<<"t","r","a","n","s","a","c","t","i","o","n","_","i","d">>, <<"p","r","o","d","u","c","t">>>>
HdrItemOnly == <<<<"I","t","e","m">>>>
HdrMatrix == <<<<" ","b","r","e","a","d">>, <<"m","i","l","k">>, <<"e","g","g","s"," ">>>>
HdrBlankLine == <<>>

Headers ==
    {HdrLong, HdrLongWide, HdrReversed, HdrFallback, HdrFallbackWide,
     HdrOnePrimary, HdrItemOnly, HdrMatrix, HdrBlankLine}

RowT1Apple == <<<<"T","1">>, <<"a","p","p","l","e">>>>
RowT2NaN == <<<<"T","2">>, <<" ","N","a","N"," ">>>>
RowT1Empty == <<<<"T","1">>, <<>>>>
RowT2MilkWeight == <<<<"T","2">>, <<"m","i","l","k">>, <<"-","0",".","5">>>>
RowShort == <<<<"T","1">>>>
RowNumbers == <<<<"1">>, <<"0">>, <<"2",".","5">>, <<"9">>>>
RowAbsent == <<<<"n","o">>, <<"n","a","n">>, <<" ">>>>
RowBlankLine == <<>>
RowPaddedId == <<<<" ","T","1">>, <<"b",",","c">>>>

DataRows ==
    {RowT1Apple, RowT2NaN, RowT1Empty, RowT2MilkWeight, RowShort,
     RowNumbers, RowAbsent, RowBlankLine, RowPaddedId}

PathCsv == <<"d",".","c","s","v">>
PathJson == <<"d",".","j","s","o","n">>
PathUpperCsv == <<"d",".","C","S","V">>
PathTxt == <<"d",".","t","x","t">>
PathBareCsv == <<"c","s","v">>
PathCsvBak == <<"d",".","c","s","v",".","b","a","k">>
PathEmpty == <<>>

NotJson == [ok |-> FALSE, value |-> JNull]

NotCsv == [ok |-> FALSE, rows |-> <<>>]

CsvFile(rows) == [state |-> "readable", csv |-> [ok |-> TRUE, rows |-> rows], json |-> NotJson]

JsonFile(value) == [state |-> "readable", csv |-> NotCsv, json |-> [ok |-> TRUE, value |-> value]]

AbsentFile == [state |-> "absent", csv |-> NotCsv, json |-> NotJson]

UndecodableFile == [state |-> "undecodable", csv |-> NotCsv, json |-> NotJson]

\* Readable, and refused by both tokenizers.
MalformedFile == [state |-> "readable", csv |-> NotCsv, json |-> NotJson]

BrokenFiles == {AbsentFile, UndecodableFile, MalformedFile}

\* A header and up to MaxRows data rows, and the file without any row.
CsvFiles ==
    {CsvFile(<<h>> \o d) : h \in Headers, d \in SeqsUpTo(DataRows, MaxRows)}
        \cup {CsvFile(<<>>)}

JA == JStr(<<"A">>)
JB == JStr(<<"B">>)
JX == JStr(<<"X">>)
JY == JStr(<<"Y">>)
JZ == JStr(<<"Z">>)
JEmptyStr == JStr(<<>>)

JsonValues ==
    { JList(<<JList(<<JA, JB>>), JList(<<JX, JEmptyStr, JInt(0), JInt(12)>>)>>),
      JList(<<JDict(<<[k |-> "items", v |-> JList(<<JX, JY>>)]>>),
              JDict(<<[k |-> "products", v |-> JList(<<JZ>>)]>>)>>),
      JList(<<JDict(<<[k |-> "transaction_id", v |-> JInt(1)],
                      [k |-> "items", v |-> JList(<<JA, JB>>)],
                      [k |-> "weights", v |-> JList(<<JInt(1), JInt(2)>>)]>>)>>),
      JList(<<JA, JNull, JDict(<<[k |-> "items", v |-> JList(<<>>)]>>), JList(<<>>),
              JBool(TRUE)>>),
      JDict(<<[k |-> "user1", v |-> JList(<<JA, JB>>)],
              [k |-> "user2", v |-> JDict(<<[k |-> "id", v |-> JInt(7)],
                                            [k |-> "name", v |-> JX]>>)],
              [k |-> "user3", v |-> JInt(5)]>>),
      JList(<<>>),
      JDict(<<>>),
      JZ,
      JInt(3),
      JBool(FALSE),
      JNull }

JsonFiles == {JsonFile(v) : v \in JsonValues}

OtherPaths == {PathUpperCsv, PathTxt, PathBareCsv, PathCsvBak, PathEmpty}

SampleFiles ==
    {AbsentFile, CsvFile(<<HdrLong, RowT1Apple>>), JsonFile(JList(<<JList(<<JA>>)>>))}

LoadInputs ==
    {[path |-> PathCsv, file |-> f] : f \in CsvFiles \cup BrokenFiles}
        \cup {[path |-> PathJson, file |-> f] : f \in JsonFiles \cup BrokenFiles}
        \cup {[path |-> p, file |-> f] : p \in OtherPaths, f \in SampleFiles}

InitLoad ==
    /\ op = "none"
    /\ \E input \in LoadInputs : path = input.path /\ file = input.file
    /\ opens = 0
    /\ ret = NoCall
    /\ transactions = <<>>
    /\ arg = <<>>
    /\ chained = FALSE
    /\ extractors = <<>>
    /\ resolution = NoResolution

\* transactions = preprocess_data(path); an exception leaves transactions unset.
PreprocessData ==
    /\ op = "none"
    /\ \E r \in {preprocess_data(path, file)} :
           /\ op' = "preprocess_data"
           /\ arg' = path
           /\ ret' = r.out
           /\ opens' = opens + r.opens
           /\ extractors' = r.extractors
           /\ resolution' = r.resolution
           /\ transactions' = IF r.out.kind = "value" THEN r.out.value ELSE transactions
    /\ UNCHANGED <<path, file, chained>>

NextLoad == PreprocessData

SpecLoad == InitLoad /\ [][NextLoad]_vars

-----------------------------------------------------------------------------
(* What the claims say of a load, stated over the file that was read.      *)

RECURSIVE Ascending(_)
\* The members of a finite set of numbers, smallest first.
Ascending(S) == IF S = {} THEN <<>> ELSE <<SetMin(S)>> \o Ascending(S \ {SetMin(S)})

CsvLoaded ==
    /\ op = "preprocess_data"
    /\ str_endswith(path, csv_suffix)
    /\ file.state = "readable"
    /\ file.csv.ok
    /\ file.csv.rows # <<>>

FileHeader == Head(file.csv.rows)

FileData == Tail(file.csv.rows)

\* The header names a column, whatever its casing and surrounding blanks.
Names(header, name) == \E i \in DOMAIN header : str_strip(str_lower(header[i])) = name

ColumnOf(header, name) ==
    SetMin({i \in DOMAIN header : str_strip(str_lower(header[i])) = name})

LongFormHeader(header) == Names(header, transaction_id_) /\ Names(header, item_)

\* A data row the long-form extractor passes over; tcol and icol are the
\* columns of the transaction id and of the item.
Skipped(row, tcol, icol) ==
    \/ Len(row) < tcol
    \/ Len(row) < icol
    \/ str_lower(str_strip(row[icol])) \in {<<>>, <<"n","a","n">>, <<"n","u","l","l">>}

\* The transaction ids of the rows at the positions in `at`, each once, in the
\* order of their first row.
FirstAppearances(ids, at) ==
    LET first == Ascending({i \in at : \A j \in at : j < i => ids[j] # ids[i]})
    IN  [n \in 1..Len(first) |-> ids[first[n]]]

\* The transactions of the ids at the positions in `at`: for each id in order
\* of first appearance, the items of its rows that are not skipped, in row order.
GroupsInOrder(data, tcol, icol, at) ==
    LET ids   == [i \in DOMAIN data |->
                     IF Len(data[i]) >= tcol THEN str_strip(data[i][tcol]) ELSE <<>>]
        kept  == {i \in DOMAIN data : ~Skipped(data[i], tcol, icol)}
        order == FirstAppearances(ids, at)
    IN  [n \in 1..Len(order) |->
            LET rows == Ascending({i \in kept : ids[i] = order[n]})
            IN  [m \in 1..Len(rows) |-> str_strip(data[rows[m]][icol])]]

\* C3 as stated: the transactions follow the first appearance of their id among
\* all the data rows, skipped rows included.
C3_OrderOverAllRows ==
    (CsvLoaded /\ extractors = <<"transactional">>) =>
        LET tcol == ColumnOf(FileHeader, transaction_id_)
            icol == ColumnOf(FileHeader, item_)
        IN  transactions =
                SelectSeq(GroupsInOrder(FileData, tcol, icol,
                                        {i \in DOMAIN FileData : Len(FileData[i]) >= tcol}),
                          NonEmpty)

\* C3 amended: one transaction per transaction id that has a row which is not
\* skipped, in the order of the first such row of each id, the items of a
\* transaction in row order.
C3_OrderOverKeptRows ==
    (CsvLoaded /\ extractors = <<"transactional">>) =>
        LET tcol == ColumnOf(FileHeader, transaction_id_)
            icol == ColumnOf(FileHeader, item_)
        IN  transactions =
                GroupsInOrder(FileData, tcol, icol,
                              {i \in DOMAIN FileData : ~Skipped(FileData[i], tcol, icol)})

\* The first row of T1 is skipped (empty item), T2 follows, then a valid row of
\* T1: T2's transaction comes first.
C3_Witness ==
    /\ CsvLoaded
    /\ extractors = <<"transactional">>
    /\ file.csv.rows = <<HdrLong, RowT1Empty, RowT2MilkWeight, RowT1Apple>>
    /\ transactions = <<<<<<"m","i","l","k">>>>, <<<<"a","p","p","l","e">>>>>>

\* C4: the extractor is decided by the header alone: long form when it names
\* both transaction_id and item, whatever its width; else matrix when it has
\* more than 2 columns; else simple.  One extractor runs per load.
C4_Classification ==
    CsvLoaded =>
        extractors =
            IF LongFormHeader(FileHeader) THEN <<"transactional">>
            ELSE IF Len(FileHeader) > 2 THEN <<"matrix">>
            ELSE <<"simple">>

\* A three-column header naming both columns, in another casing and padded,
\* went to the long-form extractor.
C4_Witness ==
    /\ CsvLoaded
    /\ FileHeader = HdrLongWide
    /\ FileData = <<RowT2MilkWeight, RowT1Apple>>
    /\ extractors = <<"transactional">>
    /\ Len(transactions) = 2

\* C5: a path ending neither in .csv nor in .json fails with the unsupported
\* format error, raised outside any handler, and no file was opened.
C5_UnsupportedBeforeOpen ==
    (/\ op = "preprocess_data"
     /\ ~str_endswith(path, csv_suffix)
     /\ ~str_endswith(path, json_suffix)) =>
        /\ ret = Raise("ValueError", Unsupported, "none")
        /\ opens = 0

\* d.CSV names a file that exists and holds CSV; it was refused unopened.
C5_Witness ==
    /\ op = "preprocess_data"
    /\ path = PathUpperCsv
    /\ file = CsvFile(<<HdrLong, RowT1Apple>>)
    /\ ret.kind = "raise"
    /\ opens = 0

\* The failure, if any, that a dispatched load meets.
CauseOfFailure ==
    IF file.state = "absent" THEN "FileNotFoundError"
    ELSE IF file.state = "undecodable" THEN "UnicodeDecodeError"
    ELSE IF str_endswith(path, csv_suffix)
    THEN (IF ~file.csv.ok THEN "csv.Error"
          ELSE IF file.csv.rows = <<>> THEN "StopIteration"
          ELSE "none")
    ELSE (IF ~file.json.ok THEN "JSONDecodeError"
          ELSE IF file.json.value.t \notin {"list", "dict"} THEN "ValueError"
          ELSE "none")

\* C6: every failure inside load_csv_data or load_json_data reaches the caller
\* as the load error whose context is the original exception; a load that
\* meets none returns a Dataset, and a failed load hands over no Dataset.
C6_SingleLoadError ==
    (/\ op = "preprocess_data"
     /\ str_endswith(path, csv_suffix) \/ str_endswith(path, json_suffix)) =>
        /\ CauseOfFailure # "none" =>
               /\ ret = Raise("ValueError",
                              IF str_endswith(path, csv_suffix)
                              THEN CsvLoadError ELSE JsonLoadError,
                              CauseOfFailure)
               /\ transactions = <<>>
        /\ CauseOfFailure = "none" => (ret.kind = "value" /\ transactions = ret.value)

\* A CSV file without any row: next(reader) raised StopIteration, which
\* reached the caller as the load error.
C6_Witness ==
    /\ op = "preprocess_data"
    /\ path = PathCsv
    /\ file = CsvFile(<<>>)
    /\ ret = Raise("ValueError", CsvLoadError, "StopIteration")

\* A cell that marks its column present.
Present(cell) ==
    /\ str_strip(cell) # <<>>
    /\ LET num == float_parse(cell)
       IN  \/ num.kind = "fin" /\ ~num.neg /\ num.mant > 0
           \/ num.kind = "inf" /\ ~num.neg
           \/ /\ num.kind = "err"
              /\ str_strip(str_lower(cell)) \notin
                     {<<"0">>, <<"f","a","l","s","e">>, <<"n","o">>, <<>>, <<"n","a","n">>}

PresentNames(row, header) ==
    LET cols == Ascending({i \in DOMAIN row : i <= Len(header) /\ Present(row[i])})
    IN  [n \in 1..Len(cols) |-> str_strip(header[cols[n]])]

\* C7: the matrix extractor emits, for each data row with a present column, the
\* trimmed header names of its present columns in column order, and nothing
\* for the other rows.
C7_MatrixPresence ==
    (CsvLoaded /\ extractors = <<"matrix">>) =>
        transactions =
            SelectSeq([n \in 1..Len(FileData) |-> PresentNames(FileData[n], FileHeader)],
                      NonEmpty)

\* Header [bread, milk, eggs]: the row [1, 0, 2.5, 9] gave [bread, eggs], its
\* fourth cell ignored, and the row [no, nan, blank] gave nothing.
C7_Witness ==
    /\ CsvLoaded
    /\ file.csv.rows = <<HdrMatrix, RowNumbers, RowAbsent>>
    /\ extractors = <<"matrix">>
    /\ transactions = <<<<<<"b","r","e","a","d">>, <<"e","g","g","s">>>>>>

\* C10: the long-form extractor only ever runs on a header naming both
\* transaction_id and item, so both columns resolve by their primary name; a
\* header lacking one of them is read as simple (at most 2 columns, its own
\* row emitted as a transaction) or as matrix (more than 2 columns).
C10_FallbacksUnreachable ==
    CsvLoaded =>
        /\ Contains(extractors, "transactional") =>
               resolution = [trans |-> "primary", item |-> "primary"]
        /\ ~LongFormHeader(FileHeader) =>
               /\ ~Contains(extractors, "transactional")
               /\ Len(FileHeader) > 2 => extractors = <<"matrix">>
               /\ Len(FileHeader) <= 2 => extractors = <<"simple">>
               /\ (Len(FileHeader) \in 1..2 /\ \A i \in DOMAIN FileHeader :
                       str_strip(FileHeader[i]) # <<>> /\ ~Contains(FileHeader[i], ",")) =>
                      /\ transactions # <<>>
                      /\ transactions[1] =
                             [i \in 1..Len(FileHeader) |-> str_strip(FileHeader[i])]

\* The header [trans_id, product] was read as simple and came out as the first
\* transaction, before the data row.
C10_Witness ==
    /\ CsvLoaded
    /\ file.csv.rows = <<HdrFallback, RowT1Apple>>
    /\ extractors = <<"simple">>
    /\ resolution = NoResolution
    /\ transactions = <<<<trans_id_, product_>>, <<<<"T","1">>, <<"a","p","p","l","e">>>>>>

-----------------------------------------------------------------------------
(* _extract_transaction_from_dict on its own.                              *)

\* Most keys of an object handed to the heuristic.
MaxKeys == 2

DictKeys == {"items", "products", "events", "sequence", "data", "id", "weights", "name"}

DictValues == {JList(<<JX, JEmptyStr, JY>>), JList(<<>>), JZ, JInt(0)}

DictPairs == {[k |-> key, v |-> value] : key \in DictKeys, value \in DictValues}

\* Objects of up to MaxKeys keys, in every key iteration order.
Dicts ==
    {d \in SeqsUpTo(DictPairs, MaxKeys) :
        \A i, j \in DOMAIN d : i < j => d[i].k # d[j].k}

InitDict ==
    /\ op = "none"
    /\ path = <<>>
    /\ file = NoFile
    /\ opens = 0
    /\ ret = NoCall
    /\ transactions = <<>>
    /\ arg \in Dicts
    /\ chained = FALSE
    /\ extractors = <<>>
    /\ resolution = NoResolution

ExtractFromDict ==
    /\ op = "none"
    /\ op' = "_extract_transaction_from_dict"
    /\ ret' = Return(extract_transaction_from_dict(arg))
    /\ UNCHANGED <<path, file, opens, transactions, arg, chained, extractors, resolution>>

NextDict == ExtractFromDict

SpecDict == InitDict /\ [][NextDict]_vars

\* The key the heuristic reads: the first present of the five, in their order.
WinningKey(d) ==
    IF HasKey(d, "items") THEN "items"
    ELSE IF HasKey(d, "products") THEN "products"
    ELSE IF HasKey(d, "events") THEN "events"
    ELSE IF HasKey(d, "sequence") THEN "sequence"
    ELSE IF HasKey(d, "data") THEN "data"
    ELSE "none"

\* The strings one value contributes.
ValueStrings(value) ==
    IF value.t = "list"
    THEN LET kept == Ascending({i \in DOMAIN value.v : truthy(value.v[i])})
         IN  [n \in 1..Len(kept) |-> py_str(value.v[kept[n]])]
    ELSE <<py_str(value)>>

\* C8: when one of items, products, events, sequence, data is a key of the
\* object, the transaction comes from the value of the first of them alone,
\* whatever the other keys and the key order; otherwise from the values of
\* all keys but id, transaction_id, user_id, weight, weights, in key order.
C8_PriorityKeyAlone ==
    op = "_extract_transaction_from_dict" =>
        IF WinningKey(arg) # "none"
        THEN ret = Return(ValueStrings(GetKey(arg, WinningKey(arg))))
        ELSE LET others == Ascending({i \in DOMAIN arg :
                               arg[i].k \notin {"id", "transaction_id", "user_id",
                                                "weight", "weights"}})
             IN  ret = Return(Flatten([n \in 1..Len(others) |->
                                          ValueStrings(arg[others[n]].v)]))

\* products, met first, holds X and Y; items holds the empty list and wins:
\* the transaction is empty.
C8_Witness ==
    /\ op = "_extract_transaction_from_dict"
    /\ arg = <<[k |-> "products", v |-> JList(<<JX, JEmptyStr, JY>>)],
               [k |-> "items", v |-> JList(<<>>)]>>
    /\ ret = Return(<<>>)

-----------------------------------------------------------------------------
(* The program as __main__ runs it: load, normalise, summarise.            *)

Init == InitLoad

Next ==
    \/ PreprocessData
    \/ (op = "preprocess_data" /\ ret.kind = "value" /\ Normalize)
    \/ (op = "normalize_items" /\ ~chained /\ Summary)

Spec == Init /\ [][Next]_vars

=============================================================================
